---------------------------- MODULE Spec2Model ----------------------------
(***************************************************************************)
(* Model of core/camera/src/main/cpp/opengl_debug_jni.cpp: the JNI entry   *)
(* point enableES3DebugErrorLogging, which registers gl_debug_cb in the    *)
(* current GL context and enables GL_DEBUG_OUTPUT_KHR, and the callback    *)
(* gl_debug_cb, which the GL driver invokes for each debug message.        *)
(*                                                                         *)
(* The GL context (callback slot, capabilities, error flag) and the        *)
(* Android log are the environment the two functions act on.  The context  *)
(* also records, in order, the GL calls made on it, in the way a recording *)
(* GL binding would.                                                       *)
(***************************************************************************)
EXTENDS Integers, Sequences, FiniteSets, TLC

\* ------------------------------------------------------------------ bounds
MaxInstalls == 2     \* invocations of the entry point
MaxMessages == 2     \* debug messages the driver emits
MaxOtherWrites == 1  \* writes to the callback slot by code other than this

\* ------------------------------------------------------- program constants
LOG_TAG == "OpenGLDebugLib"
ANDROID_LOG_ERROR == "ANDROID_LOG_ERROR"
GL_DEBUG_TYPE_ERROR_KHR == "GL_DEBUG_TYPE_ERROR_KHR"
GL_DEBUG_OUTPUT_KHR == "GL_DEBUG_OUTPUT_KHR"
nullptr == "nullptr"
\* the address of the callback function
gl_debug_cb_ptr == "gl_debug_cb"
\* variant: the format without the line break and the closing full stop
LOG_FORMAT_plain == <<"GL ERROR: ", "%s">>
\* the format string "GL ERROR:\n %s.", split at its one conversion
LOG_FORMAT == <<"GL ERROR:\n ", "%s", ".">>

\* ------------------------------------------------- values of the arguments
Types == { GL_DEBUG_TYPE_ERROR_KHR,
           "GL_DEBUG_TYPE_DEPRECATED_BEHAVIOR_KHR",
           "GL_DEBUG_TYPE_UNDEFINED_BEHAVIOR_KHR",
           "GL_DEBUG_TYPE_PORTABILITY_KHR",
           "GL_DEBUG_TYPE_PERFORMANCE_KHR",
           "GL_DEBUG_TYPE_OTHER_KHR",
           "GL_DEBUG_TYPE_MARKER_KHR" }
Sources == { "GL_DEBUG_SOURCE_API_KHR", "GL_DEBUG_SOURCE_SHADER_COMPILER_KHR" }
Severities == { "GL_DEBUG_SEVERITY_HIGH_KHR", "GL_DEBUG_SEVERITY_MEDIUM_KHR",
                "GL_DEBUG_SEVERITY_LOW_KHR", "GL_DEBUG_SEVERITY_NOTIFICATION_KHR" }
Ids == { 0, 1 }
Messages == { "Shader compile failed", "Out of memory" }
\* capabilities of the context: the one the entry point enables, and others
Caps == { GL_DEBUG_OUTPUT_KHR, "GL_BLEND", "GL_DEPTH_TEST" }
\* a callback and user data some other code may register
OtherCallbacks == { nullptr, "other_cb" }

VARIABLES
    ctx,         \* the current GL context
    log,         \* the Android log: the sequence of entries written
    jni,         \* what the managed caller observes of the entry point
    calls,       \* the invocations of gl_debug_cb so far: type and message
    lastCall,    \* all the arguments of the latest invocation of gl_debug_cb
    installs,    \* number of invocations of the entry point
    emitted,     \* number of debug messages the driver has emitted
    otherWrites  \* number of writes to the slot by other code

vars == <<ctx, log, jni, calls, lastCall, installs, emitted, otherWrites>>

\* ------------------------------------------------------------ the log sink
\* vsnprintf of a format with %s conversions, all given the same argument
RECURSIVE Format(_, _)
Format(fmt, arg) ==
    IF fmt = <<>> THEN ""
    ELSE (IF Head(fmt) = "%s" THEN arg ELSE Head(fmt)) \o Format(Tail(fmt), arg)

\* __android_log_print(prio, tag, fmt, arg): one entry appended to the log,
\* holding the arguments of the call and the text they format to
android_log_print(prio, tag, fmt, arg, lg) ==
    Append(lg, [prio |-> prio, tag |-> tag, arg |-> arg,
                text |-> Format(fmt, arg)])

\* ------------------------------------------------------------ the callback
\* variant: the callback logs every message, whatever its type
gl_debug_cb_unfiltered(source, type, id, severity, length, message, userParam, lg) ==
    Append(lg, [prio |-> "ANDROID_LOG_ERROR", tag |-> "OpenGLDebugLib",
                arg |-> message, text |-> "GL ERROR:\n " \o message \o "."])

\* variant: the callback does not log a message equal to the one logged last
gl_debug_cb_dedup(source, type, id, severity, length, message, userParam, lg) ==
    IF type = "GL_DEBUG_TYPE_ERROR_KHR"
       /\ ~(lg # <<>> /\ lg[Len(lg)].arg = message)
    THEN Append(lg, [prio |-> "ANDROID_LOG_ERROR", tag |-> "OpenGLDebugLib",
                     arg |-> message,
                     text |-> "GL ERROR:\n " \o message \o "."])
    ELSE lg

\* variant: the callback also filters on severity, dropping notifications
gl_debug_cb_severity(source, type, id, severity, length, message, userParam, lg) ==
    IF type = "GL_DEBUG_TYPE_ERROR_KHR"
       /\ severity # "GL_DEBUG_SEVERITY_NOTIFICATION_KHR"
    THEN Append(lg, [prio |-> "ANDROID_LOG_ERROR", tag |-> "OpenGLDebugLib",
                     arg |-> message,
                     text |-> "GL ERROR:\n " \o message \o "."])
    ELSE lg

\* gl_debug_cb: the log after the invocation, given the log before it
gl_debug_cb(source, type, id, severity, length, message, userParam, lg) ==
    IF type = GL_DEBUG_TYPE_ERROR_KHR
    THEN android_log_print(ANDROID_LOG_ERROR, LOG_TAG, LOG_FORMAT, message, lg)
    ELSE lg

\* ------------------------------------------------------------ the GL calls
\* A context without the debug extension: the registration call is a no-op
UnsupportedRegistration(c) == c

\* A context without the debug extension rejects the capability: the state
\* is unchanged but for the context's error flag, which keeps its first error
UnsupportedCapability(c) ==
    [c EXCEPT !.glError = IF @ = "GL_NO_ERROR" THEN "GL_INVALID_ENUM" ELSE @]

\* glDebugMessageCallbackKHR(callback, userParam) on context c
glDebugMessageCallbackKHR(callback, userParam, c) ==
    LET called == [c EXCEPT !.trace = Append(@, <<"glDebugMessageCallbackKHR",
                                                   callback, userParam>>)]
    IN  IF c.hasDebugExt
        THEN [called EXCEPT !.callback = callback, !.userParam = userParam]
        ELSE UnsupportedRegistration(called)

\* glEnable(cap) on context c
glEnable(cap, c) ==
    LET called == [c EXCEPT !.trace = Append(@, <<"glEnable", cap>>)]
    IN  IF cap = GL_DEBUG_OUTPUT_KHR /\ ~c.hasDebugExt
        THEN UnsupportedCapability(called)
        ELSE [called EXCEPT !.caps[cap] = TRUE]

\* --------------------------------------------------------------- the state
InitialContext(ext) ==
    [ hasDebugExt |-> ext,
      callback    |-> nullptr,
      userParam   |-> nullptr,
      caps        |-> [cap \in Caps |-> FALSE],
      glError     |-> "GL_NO_ERROR",
      trace       |-> <<>> ]

NoCall == [source |-> "none", type |-> "none", id |-> 0, severity |-> "none",
           length |-> 0, message |-> "", userParam |-> nullptr]

Init ==
    /\ \E ext \in BOOLEAN : ctx = InitialContext(ext)
    /\ log = <<>>
    /\ jni = [returned |-> "not called", exceptionPending |-> FALSE]
    /\ calls = <<>>
    /\ lastCall = NoCall
    /\ installs = 0
    /\ emitted = 0
    /\ otherWrites = 0

\* ------------------------------------------------------------- the actions
\* variant: the entry point enables debug output before it registers
enableES3DebugErrorLogging_enableFirst ==
    /\ installs < MaxInstalls
    /\ installs' = installs + 1
    /\ ctx' = glDebugMessageCallbackKHR(gl_debug_cb_ptr, nullptr,
                                        glEnable(GL_DEBUG_OUTPUT_KHR, ctx))
    /\ jni' = [jni EXCEPT !.returned = "void"]
    /\ UNCHANGED <<log, calls, lastCall, emitted, otherWrites>>

\* variant: the entry point passes user data allocated anew at each call
enableES3DebugErrorLogging_freshUserData ==
    /\ installs < MaxInstalls
    /\ installs' = installs + 1
    /\ ctx' = glEnable(GL_DEBUG_OUTPUT_KHR,
                       glDebugMessageCallbackKHR(gl_debug_cb_ptr,
                           IF installs = 0 THEN nullptr ELSE "state", ctx))
    /\ jni' = [jni EXCEPT !.returned = "void"]
    /\ UNCHANGED <<log, calls, lastCall, emitted, otherWrites>>

\* variant: the entry point enables a second capability
enableES3DebugErrorLogging_extraCap ==
    /\ installs < MaxInstalls
    /\ installs' = installs + 1
    /\ ctx' = glEnable("GL_BLEND", glEnable(GL_DEBUG_OUTPUT_KHR,
                       glDebugMessageCallbackKHR(gl_debug_cb_ptr, nullptr, ctx)))
    /\ jni' = [jni EXCEPT !.returned = "void"]
    /\ UNCHANGED <<log, calls, lastCall, emitted, otherWrites>>

\* variant: the entry point checks the GL error flag and reports a failure,
\* to the log and to the managed caller
enableES3DebugErrorLogging_reporting ==
    /\ installs < MaxInstalls
    /\ installs' = installs + 1
    /\ ctx' = glEnable(GL_DEBUG_OUTPUT_KHR,
                       glDebugMessageCallbackKHR(gl_debug_cb_ptr, nullptr, ctx))
    /\ IF ctx'.glError # "GL_NO_ERROR"
       THEN /\ log' = android_log_print(ANDROID_LOG_ERROR, LOG_TAG,
                                         <<"%s">>, "debug output unavailable", log)
            /\ jni' = [returned |-> "void", exceptionPending |-> TRUE]
       ELSE /\ log' = log
            /\ jni' = [jni EXCEPT !.returned = "void"]
    /\ UNCHANGED <<calls, lastCall, emitted, otherWrites>>

\* variant: the entry point toggles: a call made while the callback is
\* registered unregisters it and disables debug output
enableES3DebugErrorLogging_toggle ==
    /\ installs < MaxInstalls
    /\ installs' = installs + 1
    /\ ctx' = IF ctx.callback = gl_debug_cb_ptr
              THEN [glDebugMessageCallbackKHR(nullptr, nullptr, ctx)
                       EXCEPT !.caps[GL_DEBUG_OUTPUT_KHR] = FALSE]
              ELSE glEnable(GL_DEBUG_OUTPUT_KHR,
                       glDebugMessageCallbackKHR(gl_debug_cb_ptr, nullptr, ctx))
    /\ jni' = [jni EXCEPT !.returned = "void"]
    /\ UNCHANGED <<log, calls, lastCall, emitted, otherWrites>>

\* variant: the entry point logs that it has installed the callback
enableES3DebugErrorLogging_logging ==
    /\ installs < MaxInstalls
    /\ installs' = installs + 1
    /\ ctx' = glEnable(GL_DEBUG_OUTPUT_KHR,
                       glDebugMessageCallbackKHR(gl_debug_cb_ptr, nullptr, ctx))
    /\ jni' = [jni EXCEPT !.returned = "void"]
    /\ log' = android_log_print(ANDROID_LOG_ERROR, LOG_TAG, <<"%s">>,
                                "debug logging enabled", log)
    /\ UNCHANGED <<calls, lastCall, emitted, otherWrites>>

\* Java_..._GLDebug_enableES3DebugErrorLogging(env, clazz)
enableES3DebugErrorLogging ==
    /\ installs < MaxInstalls
    /\ installs' = installs + 1
    /\ ctx' = glEnable(GL_DEBUG_OUTPUT_KHR,
                       glDebugMessageCallbackKHR(gl_debug_cb_ptr, nullptr, ctx))
    /\ jni' = [jni EXCEPT !.returned = "void"]
    /\ UNCHANGED <<log, calls, lastCall, emitted, otherWrites>>

\* The driver emits a debug message: it invokes the registered callback,
\* with the registered user data, when debug output is enabled.
DriverMessage ==
    /\ emitted < MaxMessages
    /\ emitted' = emitted + 1
    /\ \E source \in Sources, type \in Types, id \in Ids,
          severity \in Severities, message \in Messages :
          LET length == Len(message) IN
          IF ctx.caps[GL_DEBUG_OUTPUT_KHR] /\ ctx.callback = gl_debug_cb_ptr
          THEN /\ log' = gl_debug_cb(source, type, id, severity, length,
                                     message, ctx.userParam, log)
               /\ calls' = Append(calls, [type |-> type, message |-> message])
               /\ lastCall' = [source |-> source, type |-> type, id |-> id,
                               severity |-> severity, length |-> length,
                               message |-> message, userParam |-> ctx.userParam]
          ELSE UNCHANGED <<log, calls, lastCall>>
    /\ UNCHANGED <<ctx, jni, installs, otherWrites>>

\* Other code overwrites or clears the callback slot of the context.
OtherCallerWritesSlot ==
    /\ otherWrites < MaxOtherWrites
    /\ ctx.hasDebugExt
    /\ otherWrites' = otherWrites + 1
    /\ \E cb \in OtherCallbacks :
          ctx' = [ctx EXCEPT !.callback = cb,
                             !.userParam = IF cb = nullptr THEN nullptr
                                           ELSE "other_data"]
    /\ UNCHANGED <<log, jni, calls, lastCall, installs, emitted>>

Next ==
    \/ enableES3DebugErrorLogging
    \/ DriverMessage
    \/ OtherCallerWritesSlot

Spec == Init /\ [][Next]_vars

\* ------------------------------------------------------- steps and states
\* the step is one invocation of gl_debug_cb by the driver
CallbackStep == Len(calls') = Len(calls) + 1
\* the step is one invocation of the entry point
EntryStep == installs' = installs + 1
\* the step is a write to the slot by other code
OtherStep == otherWrites' = otherWrites + 1
\* gl_debug_cb is registered with null user data and debug output is enabled
Installed(c) ==
    /\ c.callback = "gl_debug_cb"
    /\ c.userParam = "nullptr"
    /\ c.caps["GL_DEBUG_OUTPUT_KHR"]
\* the log entry the callback is to write for message m
ErrorEntry(m) ==
    [prio |-> "ANDROID_LOG_ERROR", tag |-> "OpenGLDebugLib", arg |-> m,
     text |-> "GL ERROR:\n " \o m \o "."]
\* the log entries for a sequence of invocations: one per error-type message
RECURSIVE ErrorEntries(_)
ErrorEntries(cs) ==
    IF cs = <<>> THEN <<>>
    ELSE IF Head(cs).type = "GL_DEBUG_TYPE_ERROR_KHR"
         THEN <<ErrorEntry(Head(cs).message)>> \o ErrorEntries(Tail(cs))
         ELSE ErrorEntries(Tail(cs))

\* ------------------------------------------------------------------ claims

\* C1: every invocation of gl_debug_cb with type error makes exactly one call
\* of the log sink, carrying the message and the tag "OpenGLDebugLib"; an
\* invocation with any other type makes no call of the log sink.
C1_FilterCorrectness ==
    [][CallbackStep =>
         IF lastCall'.type = "GL_DEBUG_TYPE_ERROR_KHR"
         THEN /\ Len(log') = Len(log) + 1
              /\ SubSeq(log', 1, Len(log)) = log
              /\ log'[Len(log')].arg = lastCall'.message
              /\ log'[Len(log')].tag = "OpenGLDebugLib"
         ELSE log' = log]_vars

\* both branches of C1 have been taken: an error was logged, then a message
\* of another type was dropped
C1_Witness ==
    /\ Len(calls) = 2
    /\ calls[1].type = "GL_DEBUG_TYPE_ERROR_KHR"
    /\ calls[2].type = "GL_DEBUG_TYPE_PERFORMANCE_KHR"
    /\ Len(log) = 1
    /\ log[1].arg = calls[1].message

\* C2: once the entry point has installed the callback, a driver message
\* reaches gl_debug_cb, and one of type error with text M appends exactly the
\* entry (error level, "OpenGLDebugLib", "GL ERROR:\n " M "."); for
\* M = "Shader compile failed" the text is "GL ERROR:\n Shader compile failed.".
C2_ScenarioA ==
    [][/\ (emitted' = emitted + 1 /\ Installed(ctx)) => CallbackStep
       /\ (CallbackStep /\ lastCall'.type = "GL_DEBUG_TYPE_ERROR_KHR") =>
             /\ log' = Append(log, ErrorEntry(lastCall'.message))
             /\ lastCall'.message = "Shader compile failed" =>
                  log'[Len(log')].text = "GL ERROR:\n Shader compile failed."]_vars

\* scenario A has run: one installation, one error message, one entry
C2_Witness ==
    /\ installs = 1
    /\ emitted = 1
    /\ lastCall.type = "GL_DEBUG_TYPE_ERROR_KHR"
    /\ lastCall.message = "Shader compile failed"
    /\ log = << [prio |-> "ANDROID_LOG_ERROR", tag |-> "OpenGLDebugLib",
                 arg |-> "Shader compile failed",
                 text |-> "GL ERROR:\n Shader compile failed."] >>

\* C3: one invocation of the entry point makes exactly two GL calls, first
\* glDebugMessageCallbackKHR(gl_debug_cb, nullptr), then
\* glEnable(GL_DEBUG_OUTPUT_KHR); on a context with the debug extension it
\* leaves gl_debug_cb registered with null user data and debug output
\* enabled; it returns void and raises nothing.
C3_EntryPoint ==
    [][EntryStep =>
         /\ ctx'.trace = ctx.trace \o
               << <<"glDebugMessageCallbackKHR", "gl_debug_cb", "nullptr">>,
                  <<"glEnable", "GL_DEBUG_OUTPUT_KHR">> >>
         /\ ctx.hasDebugExt => Installed(ctx')
         /\ jni'.returned = "void"
         /\ ~jni'.exceptionPending]_vars

\* the entry point has run once, on a context whose slot other code had
\* filled before, and the slot now holds gl_debug_cb
C3_Witness ==
    /\ installs = 1
    /\ otherWrites = 1
    /\ Len(ctx.trace) = 2
    /\ Installed(ctx)

\* C4: a second invocation of the entry point registers the callback again
\* and changes nothing: the debug state after it (slot, user data, debug
\* output, error flag) is the state the first invocation left, nothing is
\* logged or raised, and afterwards an error message still appends exactly
\* one log entry.
C4_Idempotence ==
    [][/\ (EntryStep /\ installs >= 1 /\ otherWrites = 0) =>
             /\ ctx'.callback = ctx.callback
             /\ ctx'.userParam = ctx.userParam
             /\ ctx'.caps = ctx.caps
             /\ ctx'.glError = ctx.glError
             /\ ctx.hasDebugExt => Installed(ctx')
             /\ Len(SelectSeq(ctx'.trace,
                              LAMBDA op : op[1] = "glDebugMessageCallbackKHR"))
                  = installs'
             /\ log' = log
             /\ ~jni'.exceptionPending
       /\ (CallbackStep /\ installs >= 2
             /\ lastCall'.type = "GL_DEBUG_TYPE_ERROR_KHR") =>
             Len(log') = Len(log) + 1]_vars

\* the entry point has run twice and an error message after that was logged
\* once
C4_Witness ==
    /\ installs = 2
    /\ otherWrites = 0
    /\ Len(calls) = 1
    /\ calls[1].type = "GL_DEBUG_TYPE_ERROR_KHR"
    /\ Len(log) = 1
    /\ Len(ctx.trace) = 4

\* C5 as stated: an invocation of the entry point changes nothing but the
\* callback slot (callback and user data) and the log; in particular every
\* capability of the context and the caller's state keep their values.
C5_OnlySlotAndLog ==
    [][EntryStep =>
         /\ ctx'.caps = ctx.caps
         /\ ctx'.hasDebugExt = ctx.hasDebugExt
         /\ jni'.exceptionPending = jni.exceptionPending]_vars

\* C5, amended: an invocation of the entry point changes nothing but the
\* debug state of the context: the callback slot and the capability
\* GL_DEBUG_OUTPUT_KHR where the context has the debug extension, the error
\* flag where it has not.  The log, every other capability and the caller's
\* state keep their values.
C5_OnlyDebugState ==
    [][EntryStep =>
         /\ \A cap \in Caps \ {"GL_DEBUG_OUTPUT_KHR"} :
               ctx'.caps[cap] = ctx.caps[cap]
         /\ ctx'.hasDebugExt = ctx.hasDebugExt
         /\ ctx.hasDebugExt => ctx'.glError = ctx.glError
         /\ ~ctx.hasDebugExt =>
               /\ ctx'.callback = ctx.callback
               /\ ctx'.userParam = ctx.userParam
               /\ ctx'.caps = ctx.caps
         /\ log' = log
         /\ calls' = calls
         /\ jni'.exceptionPending = jni.exceptionPending]_vars

\* the entry point has run with a log that already held an entry, and has
\* changed the capability GL_DEBUG_OUTPUT_KHR and nothing else
C5_Witness ==
    /\ installs = 2
    /\ Len(log) = 1
    /\ emitted = 1
    /\ ctx.caps = [cap \in Caps |-> cap = "GL_DEBUG_OUTPUT_KHR"]
    /\ ctx.glError = "GL_NO_ERROR"

\* C6: on a context without the debug extension the entry point completes,
\* registers nothing, writes no log entry then or later, and signals
\* nothing to the managed caller.
C6_NoExtension ==
    ~ctx.hasDebugExt =>
        /\ log = <<>>
        /\ calls = <<>>
        /\ ctx.callback = "nullptr"
        /\ \A cap \in Caps : ~ctx.caps[cap]
        /\ ~jni.exceptionPending
        /\ jni.returned = (IF installs = 0 THEN "not called" ELSE "void")

\* scenario C has run: the entry point was invoked on a context without the
\* extension, and the driver went on to emit messages
C6_Witness ==
    /\ ~ctx.hasDebugExt
    /\ installs = 2
    /\ emitted = 2
    /\ Len(ctx.trace) = 4
    /\ jni.returned = "void"

\* C7: once gl_debug_cb is registered and debug output enabled, they stay so
\* across every step that is not a write to the slot by other code.
C7_StaysInstalled ==
    [][(Installed(ctx) /\ ~OtherStep) => Installed(ctx')]_vars

\* the callback is still registered after a further invocation of the entry
\* point and two driver messages
C7_Witness ==
    /\ installs = 2
    /\ Len(calls) = 2
    /\ otherWrites = 0
    /\ Installed(ctx)

\* C8: the log is the sequence of entries for the error-type invocations of
\* gl_debug_cb, one entry per invocation, in the order of the invocations.
C8_NoBatchingNoDedup ==
    log = ErrorEntries(calls)

\* the same error message has arrived twice and has been logged twice
C8_Witness ==
    /\ Len(calls) = 2
    /\ calls[1] = calls[2]
    /\ calls[1].type = "GL_DEBUG_TYPE_ERROR_KHR"
    /\ Len(log) = 2
    /\ log[1] = log[2]

\* C9: the log after an invocation of gl_debug_cb is the log an invocation
\* with the same type and message, and fixed other arguments, would leave:
\* source, id, severity, length and user data do not matter.  A message of
\* type error is logged at every severity, any other dropped at every
\* severity.
C9_TypeAndMessageOnly ==
    [][CallbackStep =>
         /\ log' = gl_debug_cb("GL_DEBUG_SOURCE_OTHER_KHR", lastCall'.type, 7,
                               "GL_DEBUG_SEVERITY_NOTIFICATION_KHR", 0,
                               lastCall'.message, "elsewhere", log)
         /\ lastCall'.type = "GL_DEBUG_TYPE_ERROR_KHR" =>
               Len(log') = Len(log) + 1
         /\ lastCall'.type # "GL_DEBUG_TYPE_ERROR_KHR" => log' = log]_vars

\* an error was logged, and then a high-severity message of another type,
\* from another source and with another id, was dropped
C9_Witness ==
    /\ Len(calls) = 2
    /\ calls[1].type = "GL_DEBUG_TYPE_ERROR_KHR"
    /\ lastCall.type = "GL_DEBUG_TYPE_PERFORMANCE_KHR"
    /\ lastCall.severity = "GL_DEBUG_SEVERITY_HIGH_KHR"
    /\ lastCall.source = "GL_DEBUG_SOURCE_SHADER_COMPILER_KHR"
    /\ lastCall.id = 1
    /\ Len(log) = 1

\* C10: the log is empty until the entry point has been invoked; the entry
\* point writes no entry; every entry is written by an invocation of
\* gl_debug_cb with type error, made while gl_debug_cb is registered.
C10_EntriesFromCallbackOnly ==
    /\ []((installs = 0) => (log = <<>> /\ calls = <<>>))
    /\ [][/\ EntryStep => log' = log
          /\ log' # log =>
               /\ CallbackStep
               /\ lastCall'.type = "GL_DEBUG_TYPE_ERROR_KHR"
               /\ installs >= 1
               /\ ctx.callback = "gl_debug_cb"]_vars

\* the driver emitted a message before the entry point was invoked, which
\* left no entry, and one after it, which was logged
C10_Witness ==
    /\ emitted = 2
    /\ installs = 1
    /\ Len(calls) = 1
    /\ Len(log) = 1

=============================================================================
